---- MODULE Spec2Model ----
(***************************************************************************)
(* kube-copilot: the agent reasoning loop of pkg/assistants (Assistant and *)
(* AssistantWithConfig, which share one control flow; the second adds only *)
(* timers and log calls), entered through its two facades: the /execute    *)
(* handler of the HTTP server and the execute command of the CLI.          *)
(*                                                                         *)
(* Strings are sequences of tokens.  A final answer is spelled character   *)
(* by character, because isTemplateValue looks at its bytes; a CJK         *)
(* character is one token of three UTF-8 bytes.  Other texts use one token *)
(* per word or per fixed phrase.  An optional JSON field is <<>> when the  *)
(* reply does not carry it and <<v>> when it carries the value v.          *)
(***************************************************************************)
EXTENDS Integers, Sequences, FiniteSets, TLC

VARIABLES
    pc,             \* position of the facade and of the loop
    request,        \* what the facade received: which facade, whether the
                    \* credential header and the instructions were given
    entry,          \* the facade that called the loop: "http" or "cli"
    prompts,        \* the messages the facade passes to the loop
    maxTokens,      \* the maxTokens argument the facade passes to the loop
    response,       \* what the facade answered
    cancelled,      \* the context of the HTTP request was cancelled
    cfgIterations,  \* the maxIterations argument as passed by the caller
    maxIterations,  \* the local maxIterations after defaulting
    iterations,     \* the local iterations counter
    chatHistory,    \* the chat history, a sequence of messages
    toolPrompt,     \* the tools.ToolPrompt value the loop decodes replies into
    result,         \* returned result string
    err,            \* returned error ("nil" when none)
    retVia,         \* which return statement ended the run
    lastReply,      \* <<r>>: the reply most recently decoded into toolPrompt
    lastLLM,        \* outcome of the most recent LLM call
    lastTool,       \* outcome of the most recent tool dispatch
    llmCalls,       \* client.Chat requests issued so far
    loopChats,      \* client.Chat requests issued after an observation
    sumChats,       \* summarization client.Chat requests issued
    toolExecs,      \* tool handlers invoked so far
    llmReturns,     \* client.Chat requests that returned
    toolReturns,    \* tool handlers that returned
    naCount,        \* "not available" observations produced so far
    registry,       \* tools.CopilotTools: the handler of each tool name
    tpc,            \* position of one tool dispatch
    tname,          \* the action name of the dispatch
    tinput,         \* the action input of the dispatch
    tvia,           \* how the handler ran its command: shell, direct, process
    targv,          \* the argument vector handed to exec.Command
    tret,           \* the string the handler returned
    terr,           \* the error the handler returned
    tobs,           \* the observation built from (tret, terr)
    nin,            \* the text handed to utils.CleanJSON
    nout,           \* the text after the applications of CleanJSON so far
    nfirst,         \* the text after the first application
    ncount,         \* the number of applications so far
    ppc,            \* position of each user of the shared PerfStats
    muReaders,      \* PerfStats.mu: the number of read locks held
    muWriter,       \* PerfStats.mu: the writer that called Lock, or "none"
    metrics,        \* PerfStats.metrics: the samples of each operation
    startTimes,     \* PerfStats.startTimes: the start of each operation
    operations,     \* the operations PrintStats has still to print
    adminCalls,     \* the number of RecordMetric and ResetMetrics calls
    lpc,            \* position of each caller of GetLogger
    lseen,          \* the globalLogger value a caller read in its nil test
    llogger,        \* the local logger of a caller, from InitLogger
    lerr,           \* the local err of a caller, from InitLogger
    lret,           \* what GetLogger returned to a caller
    logCalls,       \* the number of GetLogger calls of each caller
    globalLogger,   \* the global logger: "nil" or "logger"
    loggerOnce,     \* loggerOnce has run its function
    currentLogFile, \* the day in the current log file name, 0 for ""
    lastRotateDate, \* the day of the last rotation, 0 for the zero time
    today           \* the current day

vars == <<pc, request, entry, prompts, maxTokens, response, cancelled, cfgIterations, maxIterations, iterations, chatHistory,
          toolPrompt, result, err, retVia, lastReply, lastLLM, lastTool,
          llmCalls, loopChats, sumChats, toolExecs, llmReturns, toolReturns,
          naCount, registry, tpc, tname, tinput, tvia, targv, tret, terr,
          tobs, nin, nout, nfirst, ncount, ppc, muReaders, muWriter,
          metrics, startTimes, operations, adminCalls, lpc, lseen, llogger,
          lerr, lret, logCalls, globalLogger, loggerOnce, currentLogFile,
          lastRotateDate, today>>

----------------------------------------------------------------------------
(* Bounds of the model *)

\* largest positive maxIterations a caller passes
MaxCfgIterations == 2

(* Program constants *)

defaultMaxIterations == 10

ObservationTokenLimit == 1024

\* "maxTokens = 20480" of the HTTP server
serverMaxTokens == 20480

\* "maxIterations = 10" of the HTTP server
serverMaxIterations == 10

\* the default of the --max-tokens flag of the execute command
cliMaxTokens == 1024

----------------------------------------------------------------------------
(* Strings *)

CJK == {"U+6700", "U+7EC8", "U+7B54", "U+6848", "U+56DE", "U+4F7F", "U+7528",
        "U+683C", "U+5F0F", "U+6362", "U+884C", "U+7B26", "U+8868", "U+793A",
        "U+96C6", "U+7FA4", "U+6B63", "U+5E38", "U+8FD0"}

\* bytes of one character in UTF-8
Width(c) == IF c \in CJK THEN 3 ELSE 1

RECURSIVE ByteLen(_)
\* Go's len(string): the number of bytes
ByteLen(s) == IF s = <<>> THEN 0 ELSE Width(Head(s)) + ByteLen(Tail(s))

\* strings.Contains
Contains(s, sub) ==
    \E i \in 0..(Len(s) - Len(sub)) :
        \A j \in 1..Len(sub) : s[i + j] = sub[j]

WhiteSpace == {" ", "\n", "\t", "\r"}

RECURSIVE TrimLeft(_)
TrimLeft(s) ==
    IF s # <<>> /\ Head(s) \in WhiteSpace THEN TrimLeft(Tail(s)) ELSE s

RECURSIVE TrimRight(_)
TrimRight(s) ==
    IF s # <<>> /\ s[Len(s)] \in WhiteSpace
    THEN TrimRight(SubSeq(s, 1, Len(s) - 1)) ELSE s

\* strings.TrimPrefix
TrimPrefix(s, prefix) ==
    IF Len(s) >= Len(prefix) /\ SubSeq(s, 1, Len(prefix)) = prefix
    THEN SubSeq(s, Len(prefix) + 1, Len(s)) ELSE s

\* nothing is removed
TrimSpaceNone(s) == s

\* strings.TrimSpace
TrimSpace(s) == TrimRight(TrimLeft(s))

----------------------------------------------------------------------------
(* isTemplateValue *)

templatePatterns ==
    << <<"<", "U+6700", "U+7EC8", "U+7B54", "U+6848">>,
       <<"<", "f", "i", "n", "a", "l", "_", "a", "n", "s", "w", "e", "r">>,
       <<"<", "F", "i", "n", "a", "l", " ", "a", "n", "s", "w", "e", "r">>,
       <<"<", "U+6700", "U+7EC8", "U+56DE", "U+7B54">>,
       <<"<", "U+56DE", "U+7B54">>,
       <<"<", "U+7B54", "U+6848">>,
       <<"U+4F7F", "U+7528", " ", "M", "a", "r", "k", "d", "o", "w", "n", " ",
         "U+683C", "U+5F0F">>,
       <<"U+4F7F", "U+7528", "M", "a", "r", "k", "d", "o", "w", "n",
         "U+683C", "U+5F0F">>,
       <<"U+6362", "U+884C", "U+7B26", "U+7528", " ", "\\", "n", " ",
         "U+8868", "U+793A">>,
       <<"U+6362", "U+884C", "U+7B26", "U+7528", "\\", "n",
         "U+8868", "U+793A">> >>

\* the bracket test left out
isTemplateValueNoBrackets(value) ==
    \/ ByteLen(value) < 10
    \/ \E k \in 1..Len(templatePatterns) : Contains(value, templatePatterns[k])

isTemplateValue(value) ==
    \/ ByteLen(value) < 10
    \/ \E k \in 1..Len(templatePatterns) : Contains(value, templatePatterns[k])
    \/ Contains(value, <<"<">>) /\ Contains(value, <<">">>)

\* every non-empty final answer counts
FinalAnswerAcceptedAny(tp) == tp.fa # <<>>

\* a final answer counts only when the reply names no action
FinalAnswerAcceptedWithoutAction(tp) ==
    tp.fa # <<>> /\ ~isTemplateValue(tp.fa) /\ tp.name = <<>>

\* the test of the final-answer branch of the loop
FinalAnswerAccepted(tp) == tp.fa # <<>> /\ ~isTemplateValue(tp.fa)

----------------------------------------------------------------------------
(* The tool registry and the envelope *)

CopilotTools == {<<"search">>, <<"python">>, <<"trivy">>, <<"kubectl">>}

\* the map literal of "var CopilotTools = map[string]Tool{...}"
CopilotToolsLiteral ==
    (<<"search">> :> "GoogleSearch") @@ (<<"python">> :> "PythonREPL")
        @@ (<<"trivy">> :> "Trivy") @@ (<<"kubectl">> :> "Kubectl")

\* "tools.CopilotTools["trivy"] = kubetools.Trivy" of the init of package cmd
RegisterTrivy(reg) ==
    [n \in DOMAIN reg \cup {<<"trivy">>} |->
        IF n = <<"trivy">> THEN "Trivy" ELSE reg[n]]

\* every name counts as registered
RegisteredAlways(name) == TRUE

\* "toolFunc, ok := tools.CopilotTools[toolPrompt.Action.Name]"
Registered(name) == name \in DOMAIN registry

\* the zero value of tools.ToolPrompt
ToolPrompt == [name |-> <<>>, input |-> <<>>, observation |-> <<>>, fa |-> <<>>]

\* a field the document does not carry is reset to its zero value
FieldResets(old, opt) == IF opt = <<>> THEN <<>> ELSE opt[1]

\* one field of json.Unmarshal into an existing struct: a field the document
\* does not carry keeps the value the struct already holds
Field(old, opt) == IF opt = <<>> THEN old ELSE opt[1]

\* json.Unmarshal([]byte(resp), &toolPrompt) fails on text that is not JSON
UnmarshalFails(r) == r.kind # "json"

\* json.Unmarshal([]byte(resp), &toolPrompt) on a JSON object
Unmarshal(tp, r) ==
    [name        |-> Field(tp.name, r.name),
     input       |-> Field(tp.input, r.input),
     observation |-> Field(tp.observation, r.observation),
     fa          |-> Field(tp.fa, r.fa)]

\* json.Marshal(toolPrompt): every field is written, none is omitted
Marshal(tp) == [kind |-> "envelope", name |-> tp.name, input |-> tp.input,
                observation |-> tp.observation, fa |-> tp.fa]

OptText(key, opt) == IF opt = <<>> THEN <<>> ELSE <<key>> \o opt[1] \o <<",">>

\* string(resp): the text of a reply as the LLM sent it
Raw(r) ==
    IF r.kind = "json"
    THEN <<"{">> \o OptText("name:", r.name) \o OptText("input:", r.input)
               \o OptText("observation:", r.observation)
               \o OptText("final_answer:", r.fa) \o <<"}">>
    ELSE r.text

ChatMessage(role, content) == [role |-> role, content |-> content]

\* a message content that is plain text
Text(s) == [kind |-> "text", text |-> s]

SummarizePrompt ==
    <<"Summarize all the chat history and respond to original question with final answer">>

\* the canned answer of the empty-output guard ("model" stands for the
\* model argument)
CannedAnswer == <<"CANNED-PREFIX", "model", "CANNED-SUFFIX">>

FailedObservation(name, ret) ==
    <<"Tool ">> \o name \o <<" failed with error ">> \o ret
        \o <<". Considering refine the inputs for the tool.">>

NotAvailableObservation(name) ==
    <<"Tool ">> \o name
        \o <<" is not available. Considering switch to other supported tools.">>

----------------------------------------------------------------------------
(* The token budgeter (pkg/llms) *)

\* tokens of one element of a text; "BLOCK" is a long block of tool output
TokenWeight(t) == IF t = "BLOCK" THEN 600 ELSE 1

RECURSIVE NumTokens(_)
NumTokens(s) == IF s = <<>> THEN 0 ELSE TokenWeight(Head(s)) + NumTokens(Tail(s))

RECURSIVE ConstrictPrompt(_, _)
\* the longest prefix that fits the limit
ConstrictPrompt(s, limit) ==
    IF NumTokens(s) <= limit THEN s
    ELSE ConstrictPrompt(SubSeq(s, 1, Len(s) - 1), limit)

\* the text of a message content: plain text, a reply, or the envelope the
\* loop marshalled
ContentText(c) ==
    IF c.kind = "text" THEN c.text
    ELSE IF c.kind = "json" THEN Raw(c)
    ELSE <<"{", "name:">> \o c.name \o <<",", "input:">> \o c.input
            \o <<",", "observation:">> \o c.observation
            \o <<",", "final_answer:">> \o c.fa \o <<",", "}">>

RECURSIVE NumTokensFromMessages(_)
\* the tokens of a history: the sum over its messages
NumTokensFromMessages(history) ==
    IF history = <<>> THEN 0
    ELSE NumTokens(ContentText(Head(history).content))
            + NumTokensFromMessages(Tail(history))

----------------------------------------------------------------------------
(* Inputs: what the caller passes, what the LLM replies, what a tool returns *)

\* "5 namespaces": twelve bytes, no marker
AnswerPlain == <<"5", " ", "n", "a", "m", "e", "s", "p", "a", "c", "e", "s">>

\* six CJK characters, eighteen bytes, no marker
AnswerCJK == <<"U+96C6", "U+7FA4", "U+8FD0", "U+884C", "U+6B63", "U+5E38">>

\* three CJK characters, nine bytes
AnswerCJKShort == <<"U+6B63", "U+5E38", "U+8FD0">>

\* "done": four bytes
AnswerShort == <<"d", "o", "n", "e">>

\* "<final_answer here": a marker, no closing bracket
AnswerMarker == <<"<", "f", "i", "n", "a", "l", "_", "a", "n", "s", "w", "e",
                  "r", " ", "h", "e", "r", "e">>

\* "see <name> pod": both brackets, no marker
AnswerBrackets == <<"s", "e", "e", " ", "<", "n", "a", "m", "e", ">", " ",
                    "p", "o", "d">>

KubectlName == <<"kubectl">>

UnknownName == <<"sqlquery">>

\* a reply that is a JSON object; each field is <<>> (absent) or <<value>>
Json(n, i, o, f) ==
    [kind |-> "json", name |-> n, input |-> i, observation |-> o, fa |-> f]

\* the reply r inside a Markdown code fence with the language tag json; the
\* token "FENCE" stands for the three backquotes
Fenced(r) ==
    [kind |-> "text",
     text |-> <<"FENCE", "json", "\n">> \o Raw(r) \o <<"\n", "FENCE">>]

\* the reply r after a chain-of-thought block
Thought(r) ==
    [kind |-> "text",
     text |-> <<"<think>", "reasoning", "</think>">> \o Raw(r)]

\* a well-formed envelope that asks for kubectl
KubectlEnvelope == Json(<<KubectlName>>, << <<"get", "ns">> >>, <<>>, <<>>)

\* the replies of the LLM
Replies ==
    { [kind |-> "text", text |-> <<"free", "prose">>],
      Fenced(KubectlEnvelope),
      Thought(KubectlEnvelope),
      Json(<<KubectlName>>, << <<"get", "ns">> >>, <<>>, <<>>),
      Json(<<UnknownName>>, << <<"select", "1">> >>, <<>>, <<>>),
      Json(<<>>, <<>>, <<>>, <<AnswerPlain>>),
      Json(<<KubectlName>>, << <<"get", "ns">> >>, <<>>, <<AnswerPlain>>),
      Json(<< <<>> >>, <<>>, <<>>, <<AnswerMarker>>),
      Json(<<KubectlName>>, << <<"get", "pods">> >>,
           << <<"written", "by", "model">> >>, <<AnswerShort>>),
      Json(<<>>, <<>>, <<>>, <<AnswerCJK>>),
      Json(<<>>, <<>>, <<>>, <<AnswerCJKShort>>),
      Json(<<>>, <<>>, <<>>, <<AnswerBrackets>>),
      Json(<<>>, <<>>, <<>>, <<>>) }

\* the replies of a run under the default cap, which is five times as deep
DeepReplies ==
    { [kind |-> "text", text |-> <<"free", "prose">>],
      Json(<<KubectlName>>, << <<"get", "ns">> >>, <<>>, <<>>),
      Json(<<>>, <<>>, <<>>, <<AnswerPlain>>),
      Json(<< <<>> >>, <<>>, <<>>, <<AnswerMarker>>) }

RepliesOf(cfg) ==
    IF cfg <= 0 \/ cfg >= defaultMaxIterations THEN DeepReplies ELSE Replies

\* what a tool handler returns: (ret, err)
ToolOutcomes ==
    { [ret |-> <<"5", "\n">>, err |-> "nil"],
      [ret |-> <<>>, err |-> "nil"],
      [ret |-> <<" ", "\n">>, err |-> "nil"],
      [ret |-> <<"BLOCK", "BLOCK">>, err |-> "nil"],
      [ret |-> <<"stderr", "text">>, err |-> "exit status 1"] }

DeepToolOutcomes ==
    { [ret |-> <<"5", "\n">>, err |-> "nil"],
      [ret |-> <<>>, err |-> "nil"],
      [ret |-> <<"stderr", "text">>, err |-> "exit status 1"] }

ToolOutcomesOf(cfg) ==
    IF cfg <= 0 \/ cfg >= defaultMaxIterations
    THEN DeepToolOutcomes ELSE ToolOutcomes

\* the --max-iterations flag of the execute command
CfgValues == (-1)..MaxCfgIterations

\* the X-API-Key header of a request ("" when the header is missing)
ApiKeyValues == {"", "sk-key"}

\* the instructions of a request
InstructionsValues ==
    {<<>>, <<"list">>, <<"/execute", " ", "list", " ", "pods">>}

\* the args of a request
ArgsValues == {<<>>, <<"pods">>}

\* the --instructions flag of the execute command, and its positional
\* arguments joined by " "
FlagValues == {<<>>, <<"list", " ", "pods">>}

PositionalValues == {<<>>, <<"list", " ", "pods">>}

SystemPrompt == ChatMessage("system", Text(<<"executeSystemPrompt_cn">>))

\* the instructions of the handler: args are added unless the instructions
\* contain them, then the path prefix and the white space are removed
CleanInstructions(instructions, args) ==
    LET merged == IF args # <<>> /\ ~Contains(instructions, args)
                  THEN instructions \o <<" ">> \o args
                  ELSE instructions
    IN  TrimSpace(TrimPrefix(merged, <<"/execute">>))

\* the messages the /execute handler builds
ExecuteMessages(instructions, args) ==
    <<SystemPrompt,
      ChatMessage("user", Text(CleanInstructions(instructions, args)))>>

\* the instructions of the execute command: the positional arguments stand
\* in for an empty --instructions flag
CmdInstructions(instructions, args) ==
    IF instructions = <<>> /\ args # <<>> THEN args ELSE instructions

\* the messages the execute command builds
CmdMessages(instructions) ==
    <<SystemPrompt,
      ChatMessage("user", Text(<<"Here are the instructions: ">> \o instructions))>>

----------------------------------------------------------------------------
(* The loop *)

\* the variables of the normalizer
normVars == <<nin, nout, nfirst, ncount>>

\* no text has been handed to the normalizer
NormIdle ==
    /\ nin = <<>>
    /\ nout = <<>>
    /\ nfirst = <<>>
    /\ ncount = 0

\* the requests that time an operation on the shared PerfStats
PerfRequests == {"r1", "r2"}

\* the operation names that are timed
Operations == {"execute_assistant"}

\* the variables of the shared PerfStats and of its users
perfVars == <<ppc, muReaders, muWriter, metrics, startTimes, operations,
              adminCalls>>

\* GetPerfStats: empty maps; nobody has called a method: neither the
\* requests, nor the caller of PrintStats, nor that of RecordMetric and
\* ResetMetrics
PerfIdle ==
    /\ ppc = [p \in PerfRequests \cup {"printer", "admin"} |-> "idle"]
    /\ muReaders = 0
    /\ muWriter = "none"
    /\ metrics = [op \in Operations |-> <<>>]
    /\ startTimes = [op \in Operations |-> "none"]
    /\ operations = <<>>
    /\ adminCalls = 0

\* the goroutines that call GetLogger
LogCallers == {"g1", "g2"}

\* the variables of the global logger and of its callers
logVars == <<lpc, lseen, llogger, lerr, lret, logCalls, globalLogger,
             loggerOnce, currentLogFile, lastRotateDate, today>>

\* the package variables of logger.go as declared, on day 1
LogIdle ==
    /\ lpc = [c \in LogCallers |-> "idle"]
    /\ lseen = [c \in LogCallers |-> "nil"]
    /\ llogger = [c \in LogCallers |-> "nil"]
    /\ lerr = [c \in LogCallers |-> "nil"]
    /\ lret = [c \in LogCallers |-> "nil"]
    /\ logCalls = [c \in LogCallers |-> 0]
    /\ globalLogger = "nil"
    /\ loggerOnce = FALSE
    /\ currentLogFile = 0
    /\ lastRotateDate = 0
    /\ today = 1

\* the variables of the utilities of pkg/utils
auxVars == <<normVars, perfVars, logVars>>

\* one tool dispatch, before it starts
toolVars == <<tpc, tname, tinput, tvia, targv, tret, terr, tobs>>

NoDispatch ==
    /\ tname = <<>>
    /\ tinput = <<>>
    /\ tvia = "none"
    /\ targv = <<>>
    /\ tret = <<>>
    /\ terr = "nil"
    /\ tobs = <<>>

\* no request has arrived and no loop runs
LoopIdle ==
    /\ pc = "request"
    /\ request = [facade |-> "none", credential |-> FALSE,
                  instructions |-> FALSE]
    /\ entry = "none"
    /\ prompts = <<>>
    /\ maxTokens = 0
    /\ response = [kind |-> "none"]
    /\ cancelled = FALSE
    /\ cfgIterations = 0
    /\ maxIterations = 0
    /\ iterations = 0
    /\ chatHistory = <<>>
    /\ toolPrompt = ToolPrompt
    /\ result = <<>>
    /\ err = "nil"
    /\ retVia = "none"
    /\ lastReply = <<>>
    /\ lastLLM = "none"
    /\ lastTool = <<>>
    /\ llmCalls = 0
    /\ loopChats = 0
    /\ sumChats = 0
    /\ toolExecs = 0
    /\ llmReturns = 0
    /\ toolReturns = 0
    /\ naCount = 0

\* the process is initialized and waits for a request
Init ==
    /\ LoopIdle
    /\ registry = RegisterTrivy(CopilotToolsLiteral)
    /\ tpc = "none"
    /\ NoDispatch
    /\ NormIdle
    /\ PerfIdle
    /\ LogIdle

\* a return statement: return res, chatHistory, e
Return(res, e, via) ==
    /\ pc' = "done"
    /\ result' = res
    /\ err' = e
    /\ retVia' = via

\* the error of the LLM call is dropped
ChatErrorSwallowed == Return(<<>>, "nil", "llmError")

\* return "", chatHistory, fmt.Errorf("chat completion error: %v", err)
ChatError == Return(<<>>, "chat completion error", "llmError")

\* one pass more than configured
EffectiveMaxIterationsPlusOne(cfg) ==
    IF cfg <= 0 THEN defaultMaxIterations + 1 ELSE cfg + 1

\* maxIterations after "if maxIterations <= 0 { maxIterations = defaultMaxIterations }"
EffectiveMaxIterations(cfg) == IF cfg <= 0 THEN defaultMaxIterations ELSE cfg

\* the comparison off by one
CapExceededLate(i, m) == i > m + 1

\* "if iterations > maxIterations"
CapExceeded(i, m) == i > m

\* the counter is left alone
NextIterationStuck(i) == i

\* "iterations++"
NextIteration(i) == i + 1

\* the facade's variables the loop leaves alone
facadeVars == <<request, entry, prompts, maxTokens, response, cancelled>>

\* the loop's variables a facade leaves alone
loopVars == <<maxIterations, iterations, chatHistory, toolPrompt, result, err,
              retVia, lastReply, lastLLM, lastTool, llmCalls, loopChats,
              sumChats, toolExecs, llmReturns, toolReturns, naCount>>

\* the facade answers without calling the loop
Reject(kind, code, message) ==
    /\ pc' = "responded"
    /\ response' = [kind |-> kind, code |-> code, status |-> "error",
                    message |-> message]
    /\ UNCHANGED <<entry, prompts, maxTokens, cfgIterations, cancelled>>

\* the facade calls the loop
Call(facade, messages, tokens, cfg) ==
    /\ pc' = "idle"
    /\ entry' = facade
    /\ prompts' = messages
    /\ maxTokens' = tokens
    /\ cfgIterations' = cfg
    /\ UNCHANGED <<response, cancelled>>

\* nothing is required of the body
BindFailsNever(instructions, args) == FALSE

\* c.ShouldBindJSON(&req) with Instructions and Args bound as required
BindFails(instructions, args) == instructions = <<>> \/ args = <<>>

\* the /execute handler up to its call of AssistantWithConfig
ExecuteHandler ==
    /\ pc = "request"
    /\ \E apiKey \in ApiKeyValues, instructions \in InstructionsValues,
          args \in ArgsValues :
        /\ request' = [facade |-> "http", credential |-> apiKey # "",
                       instructions |-> instructions # <<>>]
        /\ IF apiKey = ""
           THEN Reject("http", 400, <<"Missing API Key">>)
           ELSE IF BindFails(instructions, args)
           THEN Reject("http", 400, <<"bind error">>)
           ELSE Call("http", ExecuteMessages(instructions, args),
                     serverMaxTokens, serverMaxIterations)
    /\ UNCHANGED loopVars
    /\ UNCHANGED <<registry, toolVars, auxVars>>

\* the execute command up to its call of Assistant
ExecuteCmd ==
    /\ pc = "request"
    /\ \E flag \in FlagValues, args \in PositionalValues, cfg \in CfgValues :
        /\ request' = [facade |-> "cli", credential |-> FALSE,
                       instructions |-> flag # <<>> \/ args # <<>>]
        /\ IF CmdInstructions(flag, args) = <<>>
           THEN Reject("cli", 1, <<"missing instructions">>)
           ELSE Call("cli", CmdMessages(CmdInstructions(flag, args)),
                     cliMaxTokens, cfg)
    /\ UNCHANGED loopVars
    /\ UNCHANGED <<registry, toolVars, auxVars>>

\* the history starts without the first prompt
InitialHistoryWithoutFirst(messages) == Tail(messages)

\* "chatHistory = prompts"
InitialHistory(messages) == messages

\* the entry of Assistant up to the first client.Chat request
Start ==
    /\ pc = "idle"
    /\ \E clientOK \in BOOLEAN :
        /\ IF Len(prompts) = 0
           THEN /\ Return(<<>>, "prompts cannot be empty", "noPrompts")
                /\ chatHistory' = <<>>
                /\ llmCalls' = llmCalls
           ELSE IF ~clientOK
           THEN /\ Return(<<>>, "unable to get OpenAI client", "noClient")
                /\ chatHistory' = <<>>
                /\ llmCalls' = llmCalls
           ELSE /\ pc' = "firstChat"
                /\ chatHistory' = InitialHistory(prompts)
                /\ llmCalls' = llmCalls + 1
                /\ UNCHANGED <<result, err, retVia>>
    /\ UNCHANGED <<maxIterations, iterations, toolPrompt, lastReply, lastLLM,
                   lastTool, loopChats, sumChats, toolExecs, naCount>>
    /\ UNCHANGED <<facadeVars, cfgIterations>>
    /\ UNCHANGED <<llmReturns, toolReturns>>
    /\ UNCHANGED <<registry, toolVars, auxVars>>

\* the first client.Chat returns; the reply is decoded; the cap is defaulted
FirstChat ==
    /\ pc = "firstChat"
    /\ \/ /\ lastLLM' = "error"
          /\ ChatError
          /\ UNCHANGED <<chatHistory, toolPrompt, lastReply, maxIterations,
                         iterations>>
       \/ \E r \in RepliesOf(cfgIterations) :
            /\ lastLLM' = "ok"
            /\ chatHistory' = Append(chatHistory, ChatMessage("assistant", r))
            /\ IF UnmarshalFails(r)
               THEN /\ Return(Raw(r), "nil", "firstParseFail")
                    /\ UNCHANGED <<toolPrompt, lastReply, maxIterations,
                                   iterations>>
               ELSE /\ toolPrompt' = Unmarshal(ToolPrompt, r)
                    /\ lastReply' = <<r>>
                    /\ iterations' = 0
                    /\ maxIterations' = EffectiveMaxIterations(cfgIterations)
                    /\ pc' = "loop"
                    /\ UNCHANGED <<result, err, retVia>>
    /\ UNCHANGED facadeVars
    /\ UNCHANGED <<cfgIterations, lastTool, llmCalls, loopChats, sumChats,
                   toolExecs, naCount>>
    /\ llmReturns' = llmReturns + 1
    /\ UNCHANGED toolReturns
    /\ UNCHANGED <<registry, toolVars, auxVars>>

\* the oldest message after the system prompt is dropped from a history of
\* more than four messages
FeedTrimsHistory(observation) ==
    /\ toolPrompt' = [toolPrompt EXCEPT
                        !.observation =
                            ConstrictPrompt(observation, ObservationTokenLimit)]
    /\ chatHistory' =
          LET h == Append(chatHistory, ChatMessage("user", Marshal(toolPrompt')))
          IN  IF Len(h) > 4 THEN <<h[1]>> \o SubSeq(h, 3, Len(h)) ELSE h
    /\ pc' = "chat"
    /\ llmCalls' = llmCalls + 1
    /\ loopChats' = loopChats + 1
    /\ UNCHANGED <<result, err, retVia>>

\* the observation is appended and the next pass starts without a client.Chat
\* request
FeedSkipsChat(observation) ==
    /\ toolPrompt' = [toolPrompt EXCEPT
                        !.observation =
                            ConstrictPrompt(observation, ObservationTokenLimit)]
    /\ chatHistory' = Append(chatHistory,
                             ChatMessage("user", Marshal(toolPrompt')))
    /\ pc' = "loop"
    /\ UNCHANGED <<llmCalls, loopChats, result, err, retVia>>

\* the observation is capped, written into the envelope, appended as a user
\* message, and the next client.Chat request is issued
Feed(observation) ==
    /\ toolPrompt' = [toolPrompt EXCEPT
                        !.observation =
                            ConstrictPrompt(observation, ObservationTokenLimit)]
    /\ chatHistory' = Append(chatHistory,
                             ChatMessage("user", Marshal(toolPrompt')))
    /\ pc' = "chat"
    /\ llmCalls' = llmCalls + 1
    /\ loopChats' = loopChats + 1
    /\ UNCHANGED <<result, err, retVia>>

\* the error of the handler ends the run
ToolFailedFatal(name, ret, e) ==
    /\ Return(<<>>, e, "toolError")
    /\ UNCHANGED <<toolPrompt, chatHistory, llmCalls, loopChats>>

\* the handler returned an error e: the failure becomes the observation
ToolFailed(name, ret, e) == Feed(FailedObservation(name, ret))

\* at the cap the summarization message is appended and its completion
\* requested
CapReturnSummarizes ==
    /\ chatHistory' = Append(chatHistory,
                             ChatMessage("user", Text(SummarizePrompt)))
    /\ pc' = "summarize"
    /\ llmCalls' = llmCalls + 1
    /\ sumChats' = sumChats + 1
    /\ UNCHANGED <<result, err, retVia>>
    /\ UNCHANGED <<toolPrompt, lastTool, loopChats, toolExecs, naCount>>

\* "return toolPrompt.FinalAnswer, chatHistory, nil" of the cap test
CapReturn ==
    /\ Return(toolPrompt.fa, "nil", "cap")
    /\ UNCHANGED <<chatHistory, toolPrompt, lastTool, llmCalls, loopChats,
                   sumChats, toolExecs, naCount>>

\* the handler is started and the next client.Chat request is issued
\* without waiting for it
DispatchWithoutWaiting ==
    /\ toolExecs' = toolExecs + 1
    /\ Feed(<<"pending">>)
    /\ UNCHANGED <<lastTool, sumChats, naCount>>

\* "ret, err := toolFunc(toolPrompt.Action.Input)": the handler is called
\* and the loop waits for it
Dispatch ==
    /\ pc' = "tool"
    /\ toolExecs' = toolExecs + 1
    /\ UNCHANGED <<chatHistory, toolPrompt, lastTool, llmCalls, loopChats,
                   sumChats, naCount, result, err, retVia>>

\* the head of one pass of the for loop, up to the tool dispatch
LoopTop ==
    /\ pc = "loop"
    /\ iterations' = NextIteration(iterations)
    /\ IF CapExceeded(iterations', maxIterations)
       THEN CapReturn
       ELSE IF FinalAnswerAccepted(toolPrompt)
       THEN /\ Return(toolPrompt.fa, "nil", "final")
            /\ UNCHANGED <<chatHistory, toolPrompt, lastTool, llmCalls,
                           loopChats, sumChats, toolExecs, naCount>>
       ELSE IF toolPrompt.name # <<>>
       THEN IF Registered(toolPrompt.name)
            THEN Dispatch
            ELSE /\ Feed(NotAvailableObservation(toolPrompt.name))
                 /\ lastTool' = <<[kind |-> "unavailable",
                                   name |-> toolPrompt.name,
                                   input |-> toolPrompt.input]>>
                 /\ naCount' = naCount + 1
                 /\ UNCHANGED <<toolExecs, sumChats>>
       ELSE /\ pc' = "loop"
            /\ UNCHANGED <<chatHistory, toolPrompt, lastTool, llmCalls,
                           loopChats, sumChats, toolExecs, naCount, result,
                           err, retVia>>
    /\ UNCHANGED facadeVars
    /\ UNCHANGED <<cfgIterations, maxIterations, lastReply, lastLLM>>
    /\ UNCHANGED <<llmReturns, toolReturns>>
    /\ UNCHANGED <<registry, toolVars, auxVars>>

\* the tool handler returns (ret, err)
ToolReturns ==
    /\ pc = "tool"
    /\ \E o \in ToolOutcomesOf(cfgIterations) :
        /\ lastTool' = <<[kind |-> "handler", name |-> toolPrompt.name,
                          input |-> toolPrompt.input,
                          ret |-> o.ret, err |-> o.err]>>
        /\ IF o.err # "nil"
           THEN ToolFailed(toolPrompt.name, o.ret, o.err)
           ELSE IF TrimSpace(o.ret) = <<>>
           THEN /\ toolPrompt' = [toolPrompt EXCEPT !.fa = CannedAnswer]
                /\ chatHistory' = Append(chatHistory,
                                    ChatMessage("assistant", Marshal(toolPrompt')))
                /\ Return(CannedAnswer, "nil", "empty")
                /\ UNCHANGED <<llmCalls, loopChats>>
           ELSE Feed(TrimSpace(o.ret))
    /\ UNCHANGED facadeVars
    /\ UNCHANGED <<cfgIterations, maxIterations, iterations, lastReply,
                   lastLLM, sumChats, toolExecs, naCount>>
    /\ toolReturns' = toolReturns + 1
    /\ UNCHANGED llmReturns
    /\ UNCHANGED <<registry, toolVars, auxVars>>

\* the reply that does not decode is returned as the answer
ParseFailedReturnsReply(r) ==
    /\ chatHistory' = Append(chatHistory, ChatMessage("assistant", r))
    /\ Return(Raw(r), "nil", "summary")
    /\ UNCHANGED <<llmCalls, sumChats>>

\* a reply r after an observation does not decode: the summarization message
\* is appended and the summarization client.Chat request is issued
ParseFailed(r) ==
    /\ chatHistory' = chatHistory \o <<ChatMessage("assistant", r),
                                        ChatMessage("user", Text(SummarizePrompt))>>
    /\ pc' = "summarize"
    /\ llmCalls' = llmCalls + 1
    /\ sumChats' = sumChats + 1
    /\ UNCHANGED <<result, err, retVia>>

\* the client.Chat issued after an observation returns
ChatReturns ==
    /\ pc = "chat"
    /\ \/ /\ lastLLM' = "error"
          /\ ChatError
          /\ UNCHANGED <<chatHistory, toolPrompt, lastReply, llmCalls, sumChats>>
       \/ \E r \in RepliesOf(cfgIterations) :
            /\ lastLLM' = "ok"
            /\ IF UnmarshalFails(r)
               THEN /\ ParseFailed(r)
                    /\ UNCHANGED <<toolPrompt, lastReply>>
               ELSE /\ chatHistory' =
                         Append(chatHistory, ChatMessage("assistant", r))
                    /\ toolPrompt' = Unmarshal(toolPrompt, r)
                    /\ lastReply' = <<r>>
                    /\ pc' = "loop"
                    /\ UNCHANGED <<llmCalls, sumChats, result, err, retVia>>
    /\ UNCHANGED facadeVars
    /\ UNCHANGED <<cfgIterations, maxIterations, iterations, lastTool,
                   loopChats, toolExecs, naCount>>
    /\ llmReturns' = llmReturns + 1
    /\ UNCHANGED toolReturns
    /\ UNCHANGED <<registry, toolVars, auxVars>>

\* the summarization reply decoded into a map carries a non-empty string
\* final_answer
HasFinalAnswerString(r) == r.kind = "json" /\ r.fa # <<>> /\ r.fa[1] # <<>>

\* what the summarization path returns for the reply r
SummaryResult(r) == IF HasFinalAnswerString(r) THEN Raw(r) ELSE Raw(r)

\* the summarization client.Chat returns
SummarizeReturns ==
    /\ pc = "summarize"
    /\ \/ /\ lastLLM' = "error"
          /\ ChatError
       \/ \E r \in RepliesOf(cfgIterations) :
            /\ lastLLM' = "ok"
            /\ Return(SummaryResult(r), "nil", "summary")
    /\ UNCHANGED facadeVars
    /\ UNCHANGED <<cfgIterations, maxIterations, iterations, chatHistory,
                   toolPrompt, lastReply, lastTool, llmCalls, loopChats,
                   sumChats, toolExecs, naCount>>
    /\ llmReturns' = llmReturns + 1
    /\ UNCHANGED toolReturns
    /\ UNCHANGED <<registry, toolVars, auxVars>>

\* the position of the first occurrence of the element t in s, 0 when none
FirstIndex(s, t) ==
    IF \E i \in 1..Len(s) : s[i] = t
    THEN CHOOSE i \in 1..Len(s) : s[i] = t /\ \A j \in 1..(i - 1) : s[j] # t
    ELSE 0

\* the position of the last occurrence of the element t in s, 0 when none
LastIndex(s, t) ==
    IF \E i \in 1..Len(s) : s[i] = t
    THEN CHOOSE i \in 1..Len(s) : s[i] = t /\ \A j \in (i + 1)..Len(s) : s[j] # t
    ELSE 0

\* utils.extractJSONObject: from the first "{" to the last "}"
ExtractJSONObject(text) ==
    LET firstBrace == FirstIndex(text, "{")
        lastBrace  == LastIndex(text, "}")
    IN  IF firstBrace = 0 \/ lastBrace = 0 \/ firstBrace > lastBrace
        THEN text
        ELSE SubSeq(text, firstBrace, lastBrace)

\* json.Unmarshal([]byte(response), &aiResp) succeeds on the text of a JSON
\* object only
IsObjectText(s) == Len(s) >= 2 /\ s[1] = "{" /\ s[Len(s)] = "}"

\* the final_answer of the text of a JSON object, "" when it carries none
FinalAnswerOf(s) ==
    LET i == FirstIndex(s, "final_answer:")
    IN  IF i = 0 THEN <<>> ELSE SubSeq(s, i + 1, Len(s) - 2)

Respond(status, message) ==
    [kind |-> "http", code |-> 200, status |-> status, message |-> message]

\* the response of the /execute handler to the string the loop returned
ExecuteResponse(res) ==
    IF ~IsObjectText(res)
    THEN IF /\ IsObjectText(ExtractJSONObject(res))
            /\ FinalAnswerOf(ExtractJSONObject(res)) # <<>>
         THEN Respond("success", FinalAnswerOf(ExtractJSONObject(res)))
         ELSE Respond("success", res)
    ELSE IF FinalAnswerOf(res) # <<>>
         THEN Respond("success", FinalAnswerOf(res))
         ELSE Respond("processing", <<"processing-message">>)

\* the /execute handler after AssistantWithConfig returned
ExecuteRespond ==
    /\ pc = "done"
    /\ entry = "http"
    /\ pc' = "responded"
    /\ response' =
          IF err # "nil"
          THEN [kind |-> "http", code |-> 500, status |-> "error",
                message |-> <<err>>]
          ELSE ExecuteResponse(result)
    /\ UNCHANGED <<request, entry, prompts, maxTokens, cfgIterations,
                   cancelled>>
    /\ UNCHANGED loopVars
    /\ UNCHANGED <<registry, toolVars, auxVars>>

\* the client of an HTTP request disconnects, or the request times out,
\* while AssistantWithConfig runs: the context of the request is cancelled;
\* the handler hands no context to the loop, which has no parameter for one
Cancel ==
    /\ entry = "http"
    /\ pc \in {"idle", "firstChat", "loop", "tool", "chat", "summarize"}
    /\ ~cancelled
    /\ cancelled' = TRUE
    /\ UNCHANGED <<pc, request, entry, prompts, maxTokens, response,
                   cfgIterations>>
    /\ UNCHANGED loopVars
    /\ UNCHANGED <<registry, toolVars, auxVars>>

Next ==
    \/ ExecuteHandler
    \/ Cancel
    \/ ExecuteCmd
    \/ ExecuteRespond
    \/ Start
    \/ FirstChat
    \/ LoopTop
    \/ ToolReturns
    \/ ChatReturns
    \/ SummarizeReturns

Spec == Init /\ [][Next]_vars

\* every call returns, so a loop that can take a step takes one
FairSpec == Spec /\ WF_vars(Next)

TypeOK ==
    /\ pc \in {"request", "idle", "firstChat", "loop", "tool", "chat",
               "summarize", "done", "responded"}
    /\ entry \in {"none", "http", "cli"}
    /\ iterations \in 0..(defaultMaxIterations + MaxCfgIterations + 1)

----------------------------------------------------------------------------
(* The tool handlers (pkg/tools) and one tool dispatch of the loop *)

\* the longest command handed to Kubectl, and the longest input handed to JQ
MaxCommandLen == 3

MaxJQLen == 4

\* the words and characters a kubectl command is written with
CommandTokens == {"kubectl", " ", "get", "|", ">", "<", ";", "&", "\"", "'"}

Commands == UNION {[1..k -> CommandTokens] : k \in 0..MaxCommandLen}

\* the words and characters an input of JQ is written with: "{}" is a JSON
\* text, "oops" is not
JQTokens == {"{}", "oops", "|", " ", ".a"}

JQInputs == UNION {[1..k -> JQTokens] : k \in 0..MaxJQLen}

\* an image for trivy, a script for python, a query for search
OtherInputs == {<<"nginx">>, <<"image ", "nginx">>, <<"print(", "\"", "a", "\"", ")">>}

JQName == <<"jq">>

\* the names an action can carry
ActionNames == CopilotTools \cup {JQName, UnknownName}

InputsOf(name) ==
    IF name = KubectlName THEN Commands
    ELSE IF name = JQName THEN JQInputs
    ELSE OtherInputs

\* what cmd.CombinedOutput() yields: the combined output and the error of the
\* process (exit status, or the failure to start it)
ProcessOutcomes ==
    { [out |-> <<"5", "\n">>, err |-> "nil"],
      [out |-> <<>>, err |-> "nil"],
      [out |-> <<"stderr", "text", "\n">>, err |-> "exit status 1"],
      [out |-> <<>>, err |-> "executable file not found in $PATH"] }

\* strings.HasPrefix
HasPrefix(s, prefix) ==
    Len(s) >= Len(prefix) /\ SubSeq(s, 1, Len(prefix)) = prefix

\* the position of the first element of s that is in S, Len(s) + 1 when none
RECURSIVE FirstIn(_, _, _)
FirstIn(s, S, i) ==
    IF i > Len(s) \/ s[i] \in S THEN i ELSE FirstIn(s, S, i + 1)

\* strings.Fields: the maximal runs of non-space characters
RECURSIVE Fields(_)
Fields(s) ==
    LET t == TrimLeft(s)
        n == FirstIn(t, WhiteSpace, 1)
    IN  IF t = <<>> THEN <<>>
        ELSE <<SubSeq(t, 1, n - 1)>> \o Fields(SubSeq(t, n, Len(t)))

\* strings.Split(s, sep) for a separator of one character
RECURSIVE Split(_, _)
Split(s, sep) ==
    LET n == FirstIn(s, {sep}, 1)
    IN  IF n > Len(s) THEN <<s>>
        ELSE <<SubSeq(s, 1, n - 1)>> \o Split(SubSeq(s, n + 1, Len(s)), sep)

\* strings.ReplaceAll(script, "\"", "\\\"")
EscapeQuotes(s) == [i \in 1..Len(s) |-> IF s[i] = "\"" THEN "\\\"" ELSE s[i]]

\* the command of Kubectl after its leading "kubectl" is removed
KubectlCommand(command) ==
    IF HasPrefix(command, <<"kubectl">>)
    THEN TrimSpace(TrimPrefix(command, <<"kubectl">>))
    ELSE command

\* only the pipe sends a command to the shell
NeedsShellPipeOnly(command) == Contains(command, <<"|">>)

\* the two tests of Kubectl that end in executeShellCommand
NeedsShell(command) ==
    \/ Contains(command, <<"|">>)
    \/ Contains(command, <<">">>)
    \/ Contains(command, <<"<">>)
    \/ Contains(command, <<";">>)
    \/ Contains(command, <<"&", "&">>)
    \/ Contains(command, <<"|", "|">>)
    \/ Contains(command, <<"\"">>)
    \/ Contains(command, <<"'">>)

\* the JSON texts among the data parts
ValidJSONValues == {"{}"}

\* every data part passes the validation
JSONUnmarshalNeverFails(data) == FALSE

\* "json.Unmarshal([]byte(jsonData), &jsonObj)" fails
JSONUnmarshalFails(data) == ~(Len(data) = 1 /\ data[1] \in ValidJSONValues)

\* before init of package cmd has run
ToolInit ==
    /\ LoopIdle
    /\ registry = CopilotToolsLiteral
    /\ tpc = "init"
    /\ NoDispatch
    /\ NormIdle
    /\ PerfIdle
    /\ LogIdle

\* the variables of the loop and its facades
mainVars == <<pc, cfgIterations, facadeVars, loopVars>>

\* init of package cmd registers trivy
CmdInit ==
    /\ tpc = "init"
    /\ registry' = RegisterTrivy(registry)
    /\ tpc' = "idle"
    /\ UNCHANGED <<tname, tinput, tvia, targv, tret, terr, tobs>>
    /\ UNCHANGED <<mainVars, auxVars>>

\* a loop reaches the tool dispatch with an action of a reply
DispatchRequest ==
    /\ tpc = "idle"
    /\ \E name \in ActionNames :
        /\ tname' = name
        /\ \E input \in InputsOf(name) : tinput' = input
    /\ tpc' = "lookup"
    /\ UNCHANGED <<registry, tvia, targv, tret, terr, tobs>>
    /\ UNCHANGED <<mainVars, auxVars>>

\* the lookup adds a handler for a name it does not find
LookupRegisters ==
    /\ tpc = "lookup"
    /\ IF Registered(tname)
       THEN /\ tpc' = "call"
            /\ UNCHANGED <<tobs, registry>>
       ELSE /\ tobs' = ConstrictPrompt(NotAvailableObservation(tname),
                                       ObservationTokenLimit)
            /\ registry' = [n \in DOMAIN registry \cup {tname} |->
                               IF n = tname THEN "Kubectl" ELSE registry[n]]
            /\ tpc' = "observed"
    /\ UNCHANGED <<tname, tinput, tvia, targv, tret, terr>>
    /\ UNCHANGED <<mainVars, auxVars>>

\* "if toolFunc, ok := tools.CopilotTools[toolPrompt.Action.Name]; ok" and
\* its else branch
Lookup ==
    /\ tpc = "lookup"
    /\ IF Registered(tname)
       THEN /\ tpc' = "call"
            /\ UNCHANGED tobs
       ELSE /\ tobs' = ConstrictPrompt(NotAvailableObservation(tname),
                                       ObservationTokenLimit)
            /\ tpc' = "observed"
    /\ UNCHANGED <<registry, tname, tinput, tvia, targv, tret, terr>>
    /\ UNCHANGED <<mainVars, auxVars>>

\* exec.Command(argv...).CombinedOutput(), and the return of the handler:
\* the output, trimmed or as it is, and the error
Exec(via, argv, trim) ==
    /\ tvia' = via
    /\ targv' = argv
    /\ \E o \in ProcessOutcomes :
        /\ tret' = IF trim THEN TrimSpace(o.out) ELSE o.out
        /\ terr' = o.err

\* executeShellCommand
executeShellCommand(command) == Exec("shell", <<<<"sh">>, <<"-c">>, command>>, FALSE)

\* tools.Kubectl
Kubectl ==
    /\ tpc = "call"
    /\ registry[tname] = "Kubectl"
    /\ LET command == KubectlCommand(tinput)
       IN  IF NeedsShell(command)
           THEN executeShellCommand(<<"kubectl", " ">> \o command)
           ELSE Exec("direct", <<<<"kubectl">>>> \o Fields(command), FALSE)
    /\ tpc' = "returned"
    /\ UNCHANGED <<registry, tname, tinput, tobs>>
    /\ UNCHANGED <<mainVars, auxVars>>

\* tools.Trivy
Trivy ==
    /\ tpc = "call"
    /\ registry[tname] = "Trivy"
    /\ LET image == TrimPrefix(TrimSpace(tinput), <<"image ">>)
       IN  Exec("direct", <<<<"trivy">>, <<"image">>, image, <<"--scanners">>,
                            <<"vuln">>>>, TRUE)
    /\ tpc' = "returned"
    /\ UNCHANGED <<registry, tname, tinput, tobs>>
    /\ UNCHANGED <<mainVars, auxVars>>

\* tools.PythonREPL
PythonREPL ==
    /\ tpc = "call"
    /\ registry[tname] = "PythonREPL"
    /\ Exec("shell",
            <<<<"bash">>, <<"-c">>,
              <<"cd ~/k8s/python-cli && source k8s-env/bin/activate && python3 -c \"">>
                  \o EscapeQuotes(tinput) \o <<"\"">>>>, TRUE)
    /\ tpc' = "returned"
    /\ UNCHANGED <<registry, tname, tinput, tobs>>
    /\ UNCHANGED <<mainVars, auxVars>>

\* tools.GoogleSearch: a Tool, so a function from the input to an output
\* string or an error
GoogleSearch ==
    /\ tpc = "call"
    /\ registry[tname] = "GoogleSearch"
    /\ \E o \in ProcessOutcomes :
        /\ tret' = o.out
        /\ terr' = IF o.err = "nil" THEN "nil" ELSE "search failed"
    /\ tpc' = "returned"
    /\ UNCHANGED <<registry, tname, tinput, tvia, targv, tobs>>
    /\ UNCHANGED <<mainVars, auxVars>>

\* the observation the loop builds from what the handler returned
Observe ==
    /\ tpc = "returned"
    /\ IF terr # "nil"
       THEN /\ tobs' = ConstrictPrompt(FailedObservation(tname, tret),
                                       ObservationTokenLimit)
            /\ tpc' = "observed"
       ELSE IF TrimSpace(tret) = <<>>
       THEN /\ tobs' = <<>>
            /\ tpc' = "answered"
       ELSE /\ tobs' = ConstrictPrompt(TrimSpace(tret), ObservationTokenLimit)
            /\ tpc' = "observed"
    /\ UNCHANGED <<registry, tname, tinput, tvia, targv, tret, terr>>
    /\ UNCHANGED <<mainVars, auxVars>>

\* processJSONWithJQ calls JQ
JQRequest ==
    /\ tpc = "idle"
    /\ tname' = JQName
    /\ \E input \in JQInputs : tinput' = input
    /\ tpc' = "jq"
    /\ UNCHANGED <<registry, tvia, targv, tret, terr, tobs>>
    /\ UNCHANGED <<mainVars, auxVars>>

\* the data part and the expression of an input of two parts
JQData(input) == TrimSpace(Split(input, "|")[1])

JQExpr(input) == TrimSpace(Split(input, "|")[2])

\* only an input without a pipe is refused
WrongPartCountBelowTwo(parts) == Len(parts) < 2

\* "if len(parts) != 2"
WrongPartCount(parts) == Len(parts) # 2

\* tools.JQ up to the end of the JSON validation
JQValidate ==
    /\ tpc = "jq"
    /\ IF WrongPartCount(Split(tinput, "|"))
       THEN /\ tret' = <<>>
            /\ terr' = "input format error"
            /\ tpc' = "jqReturned"
       ELSE IF JSONUnmarshalFails(JQData(tinput))
       THEN /\ tret' = <<>>
            /\ terr' = "invalid JSON data"
            /\ tpc' = "jqReturned"
       ELSE /\ tpc' = "jqExec"
            /\ UNCHANGED <<tret, terr>>
    /\ UNCHANGED <<registry, tname, tinput, tvia, targv, tobs>>
    /\ UNCHANGED <<mainVars, auxVars>>

\* tools.JQ from exec.Command("jq", jqExpr) to its return
JQExec ==
    /\ tpc = "jqExec"
    /\ Exec("process", <<<<"jq">>, JQExpr(tinput)>>, TRUE)
    /\ tpc' = "jqReturned"
    /\ UNCHANGED <<registry, tname, tinput, tobs>>
    /\ UNCHANGED <<mainVars, auxVars>>

\* the dispatch, or the call of JQ, is over; the name stays in the envelope
\* until the next reply overwrites it
Finish ==
    /\ tpc \in {"observed", "answered", "jqReturned"}
    /\ tpc' = "idle"
    /\ tinput' = <<>>
    /\ tvia' = "none"
    /\ targv' = <<>>
    /\ tret' = <<>>
    /\ terr' = "nil"
    /\ tobs' = <<>>
    /\ UNCHANGED <<registry, tname>>
    /\ UNCHANGED <<mainVars, auxVars>>

ToolNext ==
    \/ CmdInit
    \/ DispatchRequest
    \/ Lookup
    \/ Kubectl
    \/ Trivy
    \/ PythonREPL
    \/ GoogleSearch
    \/ Observe
    \/ JQRequest
    \/ JQValidate
    \/ JQExec
    \/ Finish

ToolSpec == ToolInit /\ [][ToolNext]_vars

----------------------------------------------------------------------------
(* The response normalizer utils.CleanJSON, character by character *)

\* the number of pieces a final answer is put together from
MaxBodyUnits == 3

\* the pieces of the text of a JSON string: a letter, a space, a comma, a
\* closing brace, and an escaped quote
BodyUnits == {<<"a">>, <<" ">>, <<",">>, <<"}">>, <<"\\", "\"">>}

RECURSIVE Flatten(_)
Flatten(ss) == IF ss = <<>> THEN <<>> ELSE Head(ss) \o Flatten(Tail(ss))

\* the JSON text of an envelope whose final_answer is the string body
EnvelopeText(body) ==
    <<"{", "\"", "final_answer", "\"", ":", "\"">> \o body \o <<"\"", "}">>

\* handleMultilineStrings from position i on: a line break inside a string
\* becomes its escape
RECURSIVE handleMultilineStringsFrom(_, _, _, _)
handleMultilineStringsFrom(s, i, inString, escaped) ==
    IF i > Len(s) THEN <<>>
    ELSE IF s[i] = "\\"
    THEN <<s[i]>> \o handleMultilineStringsFrom(s, i + 1, inString, ~escaped)
    ELSE IF s[i] = "\""
    THEN <<s[i]>> \o handleMultilineStringsFrom(
                        s, i + 1, IF escaped THEN inString ELSE ~inString, FALSE)
    ELSE IF s[i] \in {"\n", "\r"}
    THEN (IF ~inString THEN <<s[i]>>
          ELSE IF s[i] = "\n" THEN <<"\\", "n">> ELSE <<"\\", "r">>)
            \o handleMultilineStringsFrom(s, i + 1, inString, FALSE)
    ELSE <<s[i]>> \o handleMultilineStringsFrom(s, i + 1, inString, FALSE)

handleMultilineStrings(jsonStr) ==
    handleMultilineStringsFrom(jsonStr, 1, FALSE, FALSE)

\* the position of the quote that ends the match of the regular expression
\* "([^"\\]*(\\.[^"\\]*)*)" whose body starts at j, 0 when there is no match
RECURSIVE StringEnd(_, _)
StringEnd(s, j) ==
    IF j > Len(s) THEN 0
    ELSE IF s[j] = "\"" THEN j
    ELSE IF s[j] = "\\"
    THEN IF j + 1 > Len(s) \/ s[j + 1] = "\n" THEN 0 ELSE StringEnd(s, j + 2)
    ELSE StringEnd(s, j + 1)

\* strings.ReplaceAll(inner, `"`, `\"`)
RECURSIVE EscapeInner(_)
EscapeInner(inner) ==
    IF inner = <<>> THEN <<>>
    ELSE (IF Head(inner) = "\"" THEN <<"\\", "\"">> ELSE <<Head(inner)>>)
            \o EscapeInner(Tail(inner))

\* handleUnescapedQuotes from position i on
RECURSIVE handleUnescapedQuotesFrom(_, _)
handleUnescapedQuotesFrom(s, i) ==
    IF i > Len(s) THEN <<>>
    ELSE IF s[i] = "\"" /\ StringEnd(s, i + 1) # 0
    THEN LET e == StringEnd(s, i + 1)
         IN  <<"\"">> \o EscapeInner(SubSeq(s, i + 1, e - 1)) \o <<"\"">>
                 \o handleUnescapedQuotesFrom(s, e + 1)
    ELSE <<s[i]>> \o handleUnescapedQuotesFrom(s, i + 1)

handleUnescapedQuotes(jsonStr) == handleUnescapedQuotesFrom(jsonStr, 1)

\* handleTrailingCommas from position i on: a match of `,\s*([}\]])` is
\* replaced by its bracket
RECURSIVE handleTrailingCommasFrom(_, _)
handleTrailingCommasFrom(s, i) ==
    IF i > Len(s) THEN <<>>
    ELSE LET k == FirstIn(s, {c \in {s[j] : j \in 1..Len(s)} : c \notin WhiteSpace},
                          i + 1)
         IN  IF s[i] = "," /\ k <= Len(s) /\ s[k] \in {"}", "]"}
             THEN <<s[k]>> \o handleTrailingCommasFrom(s, k + 1)
             ELSE <<s[i]>> \o handleTrailingCommasFrom(s, i + 1)

handleTrailingCommas(jsonStr) == handleTrailingCommasFrom(jsonStr, 1)

\* utils.CleanJSON
CleanJSON(jsonStr) ==
    handleTrailingCommas(
        handleUnescapedQuotes(
            handleMultilineStrings(ExtractJSONObject(jsonStr))))

\* a valid envelope is about to be normalized
NormInit ==
    /\ LoopIdle
    /\ registry = RegisterTrivy(CopilotToolsLiteral)
    /\ tpc = "none"
    /\ NoDispatch
    /\ \E k \in 0..MaxBodyUnits : \E units \in [1..k -> BodyUnits] :
           nin = EnvelopeText(Flatten(units))
    /\ nout = nin
    /\ nfirst = <<>>
    /\ ncount = 0
    /\ PerfIdle
    /\ LogIdle

\* CleanJSON is applied to the text, and then to its own result
Normalize ==
    /\ ncount < 2
    /\ nout' = CleanJSON(nout)
    /\ nfirst' = IF ncount = 0 THEN nout' ELSE nfirst
    /\ ncount' = ncount + 1
    /\ UNCHANGED nin
    /\ UNCHANGED <<mainVars, registry, toolVars, perfVars, logVars>>

NormSpec == NormInit /\ [][Normalize]_vars

----------------------------------------------------------------------------
(* The performance counters: utils.PerfStats *)

\* largest number of RecordMetric and ResetMetrics calls
MaxAdminCalls == 2

\* The lock p.mu is a sync.RWMutex. Lock has two halves: the writer takes the
\* inner mutex and announces itself (muWriter becomes the writer), and it goes
\* on when the readers have left (muReaders = 0). RLock goes on when no
\* writer has announced itself (muWriter = "none"). A sample of metrics is the
\* duration from the StartTimer of "from" to the StopTimer of "by". Both
\* requests time the operation "execute_assistant".

\* StartTimer, up to p.mu.Lock()
StartTimerLock(p) ==
    /\ ppc[p] = "idle"
    /\ muWriter = "none"
    /\ muWriter' = p
    /\ ppc' = [ppc EXCEPT ![p] = "StartTimer"]
    /\ UNCHANGED <<muReaders, metrics, startTimes, operations, adminCalls>>
    /\ UNCHANGED <<mainVars, registry, toolVars, normVars, logVars>>

\* StartTimer, under the lock: startTimes[operation] = time.Now()
StartTimer(p) ==
    /\ ppc[p] = "StartTimer"
    /\ muWriter = p
    /\ muReaders = 0
    /\ startTimes' = [startTimes EXCEPT !["execute_assistant"] = p]
    /\ muWriter' = "none"
    /\ ppc' = [ppc EXCEPT ![p] = "timing"]
    /\ UNCHANGED <<muReaders, metrics, operations, adminCalls>>
    /\ UNCHANGED <<mainVars, registry, toolVars, normVars, logVars>>

\* StopTimer, up to p.mu.Lock()
StopTimerLock(p) ==
    /\ ppc[p] = "timing"
    /\ muWriter = "none"
    /\ muWriter' = p
    /\ ppc' = [ppc EXCEPT ![p] = "StopTimer"]
    /\ UNCHANGED <<muReaders, metrics, startTimes, operations, adminCalls>>
    /\ UNCHANGED <<mainVars, registry, toolVars, normVars, logVars>>

\* StopTimer, under the lock: without a start it returns 0, otherwise it
\* deletes the start and appends the time since it
StopTimer(p) ==
    /\ ppc[p] = "StopTimer"
    /\ muWriter = p
    /\ muReaders = 0
    /\ IF startTimes["execute_assistant"] = "none"
       THEN UNCHANGED <<metrics, startTimes>>
       ELSE /\ startTimes' = [startTimes EXCEPT !["execute_assistant"] = "none"]
            /\ metrics' = [metrics EXCEPT !["execute_assistant"] =
                              Append(@, [by |-> p,
                                         from |-> startTimes["execute_assistant"]])]
    /\ muWriter' = "none"
    /\ ppc' = [ppc EXCEPT ![p] = "done"]
    /\ UNCHANGED <<muReaders, operations, adminCalls>>
    /\ UNCHANGED <<mainVars, registry, toolVars, normVars, logVars>>

\* RecordMetric, up to p.mu.Lock()
RecordMetricLock ==
    /\ ppc["admin"] = "idle"
    /\ adminCalls < MaxAdminCalls
    /\ muWriter = "none"
    /\ muWriter' = "admin"
    /\ ppc' = [ppc EXCEPT !["admin"] = "RecordMetric"]
    /\ UNCHANGED <<muReaders, metrics, startTimes, operations, adminCalls>>
    /\ UNCHANGED <<mainVars, registry, toolVars, normVars, logVars>>

\* RecordMetric, under the lock: appends the duration it was given
RecordMetric ==
    /\ ppc["admin"] = "RecordMetric"
    /\ muWriter = "admin"
    /\ muReaders = 0
    /\ \E op \in Operations :
           metrics' = [metrics EXCEPT ![op] =
                          Append(@, [by |-> "admin", from |-> "admin"])]
    /\ muWriter' = "none"
    /\ ppc' = [ppc EXCEPT !["admin"] = "idle"]
    /\ adminCalls' = adminCalls + 1
    /\ UNCHANGED <<muReaders, startTimes, operations>>
    /\ UNCHANGED <<mainVars, registry, toolVars, normVars, logVars>>

\* ResetMetrics, up to p.mu.Lock()
ResetMetricsLock ==
    /\ ppc["admin"] = "idle"
    /\ adminCalls < MaxAdminCalls
    /\ muWriter = "none"
    /\ muWriter' = "admin"
    /\ ppc' = [ppc EXCEPT !["admin"] = "ResetMetrics"]
    /\ UNCHANGED <<muReaders, metrics, startTimes, operations, adminCalls>>
    /\ UNCHANGED <<mainVars, registry, toolVars, normVars, logVars>>

\* ResetMetrics, under the lock: new empty metrics and startTimes
ResetMetrics ==
    /\ ppc["admin"] = "ResetMetrics"
    /\ muWriter = "admin"
    /\ muReaders = 0
    /\ metrics' = [op \in Operations |-> <<>>]
    /\ startTimes' = [op \in Operations |-> "none"]
    /\ muWriter' = "none"
    /\ ppc' = [ppc EXCEPT !["admin"] = "idle"]
    /\ adminCalls' = adminCalls + 1
    /\ UNCHANGED <<muReaders, operations>>
    /\ UNCHANGED <<mainVars, registry, toolVars, normVars, logVars>>

\* PrintStats, from p.mu.RLock() to the sorted list of operations: without
\* metrics it returns its "no metrics" text at once, otherwise it keeps the
\* read lock
PrintStatsRLock ==
    /\ ppc["printer"] = "idle"
    /\ muWriter = "none"
    /\ IF \A op \in Operations : metrics[op] = <<>>
       THEN /\ ppc' = [ppc EXCEPT !["printer"] = "noMetrics"]
            /\ UNCHANGED <<muReaders, operations>>
       ELSE /\ ppc' = [ppc EXCEPT !["printer"] = "printing"]
            /\ muReaders' = muReaders + 1
            /\ operations' = SelectSeq(<<"execute_assistant">>,
                                       LAMBDA op : metrics[op] # <<>>)
    /\ UNCHANGED <<muWriter, metrics, startTimes, adminCalls>>
    /\ UNCHANGED <<mainVars, registry, toolVars, normVars, logVars>>

\* one turn of the loop of PrintStats: GetMetricStats(op) takes the read lock
\* again, reads the samples of op and releases it
GetMetricStats ==
    /\ ppc["printer"] = "printing"
    /\ operations # <<>>
    /\ muWriter = "none"
    /\ operations' = Tail(operations)
    /\ UNCHANGED <<ppc, muReaders, muWriter, metrics, startTimes, adminCalls>>
    /\ UNCHANGED <<mainVars, registry, toolVars, normVars, logVars>>

\* PrintStats returns: the deferred p.mu.RUnlock()
PrintStatsReturn ==
    /\ ppc["printer"] = "printing"
    /\ operations = <<>>
    /\ muReaders' = muReaders - 1
    /\ ppc' = [ppc EXCEPT !["printer"] = "printed"]
    /\ UNCHANGED <<muWriter, metrics, startTimes, operations, adminCalls>>
    /\ UNCHANGED <<mainVars, registry, toolVars, normVars, logVars>>

\* pkg/utils before any call
UtilsInit ==
    /\ LoopIdle
    /\ registry = RegisterTrivy(CopilotToolsLiteral)
    /\ tpc = "none"
    /\ NoDispatch
    /\ NormIdle
    /\ PerfIdle
    /\ LogIdle

PerfNext ==
    \/ \E p \in PerfRequests : StartTimerLock(p)
    \/ \E p \in PerfRequests : StartTimer(p)
    \/ \E p \in PerfRequests : StopTimerLock(p)
    \/ \E p \in PerfRequests : StopTimer(p)
    \/ RecordMetricLock
    \/ RecordMetric
    \/ ResetMetricsLock
    \/ ResetMetrics
    \/ PrintStatsRLock
    \/ GetMetricStats
    \/ PrintStatsReturn

PerfSpec == UtilsInit /\ [][PerfNext]_vars

\* a goroutine that can run does run
PerfFairSpec == PerfSpec /\ WF_vars(PerfNext)

----------------------------------------------------------------------------
(* The logger: utils.GetLogger *)

\* largest number of GetLogger calls of one goroutine
MaxGetLoggerCalls == 2

\* the last day of the model
MaxDays == 2

\* checkRotateLogger, the whole function under rotateMutex: on the first
\* call or on a new day with a new file name it drops the logger and the Once
checkRotateLogger(c) ==
    /\ lpc[c] \in {"idle", "returned"}
    /\ logCalls[c] < MaxGetLoggerCalls
    /\ logCalls' = [logCalls EXCEPT ![c] = @ + 1]
    /\ IF /\ lastRotateDate = 0 \/ today > lastRotateDate
          /\ currentLogFile = 0 \/ today # currentLogFile
       THEN /\ globalLogger' = "nil"
            /\ loggerOnce' = FALSE
            /\ currentLogFile' = today
            /\ lastRotateDate' = today
       ELSE UNCHANGED <<globalLogger, loggerOnce, currentLogFile,
                        lastRotateDate>>
    /\ lpc' = [lpc EXCEPT ![c] = "checked"]
    /\ UNCHANGED <<lseen, llogger, lerr, lret, today>>
    /\ UNCHANGED <<mainVars, registry, toolVars, normVars, perfVars>>

\* GetLogger: the test "globalLogger == nil", a read without a lock
GetLogger(c) ==
    /\ lpc[c] = "checked"
    /\ lseen' = [lseen EXCEPT ![c] = globalLogger]
    /\ lpc' = [lpc EXCEPT ![c] = IF globalLogger = "nil" THEN "InitLogger"
                                  ELSE "return"]
    /\ UNCHANGED <<llogger, lerr, lret, logCalls, globalLogger, loggerOnce,
                   currentLogFile, lastRotateDate, today>>
    /\ UNCHANGED <<mainVars, registry, toolVars, normVars, perfVars>>

\* InitLogger: loggerOnce.Do runs the function at most once; the function
\* gives up with an error when os.MkdirAll fails and builds the logger
\* otherwise; InitLogger returns globalLogger and the local err
InitLogger(c) ==
    /\ lpc[c] = "InitLogger"
    /\ IF loggerOnce
       THEN /\ lerr' = [lerr EXCEPT ![c] = "nil"]
            /\ llogger' = [llogger EXCEPT ![c] = globalLogger]
            /\ UNCHANGED <<globalLogger, currentLogFile, lastRotateDate>>
       ELSE \E mkdirAll \in {"nil", "error"} :
                IF mkdirAll # "nil"
                THEN /\ lerr' = [lerr EXCEPT ![c] = "error"]
                     /\ llogger' = [llogger EXCEPT ![c] = globalLogger]
                     /\ UNCHANGED <<globalLogger, currentLogFile,
                                    lastRotateDate>>
                ELSE /\ lerr' = [lerr EXCEPT ![c] = "nil"]
                     /\ currentLogFile' = today
                     /\ lastRotateDate' = today
                     /\ globalLogger' = "logger"
                     /\ llogger' = [llogger EXCEPT ![c] = "logger"]
    /\ loggerOnce' = TRUE
    /\ lpc' = [lpc EXCEPT ![c] = "inited"]
    /\ UNCHANGED <<lseen, lret, logCalls, today>>
    /\ UNCHANGED <<mainVars, registry, toolVars, normVars, perfVars>>

\* GetLogger after InitLogger: with an error the development logger, and
\* "return logger" in both cases
GetLoggerInited(c) ==
    /\ lpc[c] = "inited"
    /\ lret' = [lret EXCEPT ![c] = IF lerr[c] # "nil" THEN "development"
                                    ELSE llogger[c]]
    /\ lpc' = [lpc EXCEPT ![c] = "returned"]
    /\ UNCHANGED <<lseen, llogger, lerr, logCalls, globalLogger, loggerOnce,
                   currentLogFile, lastRotateDate, today>>
    /\ UNCHANGED <<mainVars, registry, toolVars, normVars, perfVars>>

\* GetLogger, "return globalLogger": a second read without a lock, which the
\* build may also serve from the value read in the test
GetLoggerReturn(c) ==
    /\ lpc[c] = "return"
    /\ \E read \in {lseen[c], globalLogger} :
           lret' = [lret EXCEPT ![c] = read]
    /\ lpc' = [lpc EXCEPT ![c] = "returned"]
    /\ UNCHANGED <<lseen, llogger, lerr, logCalls, globalLogger, loggerOnce,
                   currentLogFile, lastRotateDate, today>>
    /\ UNCHANGED <<mainVars, registry, toolVars, normVars, perfVars>>

\* the day changes
Midnight ==
    /\ today < MaxDays
    /\ today' = today + 1
    /\ UNCHANGED <<lpc, lseen, llogger, lerr, lret, logCalls, globalLogger,
                   loggerOnce, currentLogFile, lastRotateDate>>
    /\ UNCHANGED <<mainVars, registry, toolVars, normVars, perfVars>>

LogNext ==
    \/ \E c \in LogCallers : checkRotateLogger(c)
    \/ \E c \in LogCallers : GetLogger(c)
    \/ \E c \in LogCallers : InitLogger(c)
    \/ \E c \in LogCallers : GetLoggerInited(c)
    \/ \E c \in LogCallers : GetLoggerReturn(c)
    \/ Midnight

LogSpec == UtilsInit /\ [][LogNext]_vars

----------------------------------------------------------------------------
(* Properties *)

\* the step is one of the program, not the cancellation of the request
ProgramStep == cancelled' = cancelled

\* the cap N of a run: the configured maxIterations, or 10 when it is <= 0
Cap == IF cfgIterations <= 0 THEN 10 ELSE cfgIterations

\* the placeholder predicate as the specification words it, in bytes
IsPlaceholder(s) ==
    \/ ByteLen(s) < 10
    \/ \E k \in 1..Len(templatePatterns) : Contains(s, templatePatterns[k])
    \/ (\E i \in 1..Len(s) : s[i] = "<") /\ (\E i \in 1..Len(s) : s[i] = ">")

\* the reply most recently decoded carries a final answer that is accepted
LastReplyAccepted ==
    /\ lastReply # <<>>
    /\ lastReply[1].fa # <<>>
    /\ lastReply[1].fa[1] # <<>>
    /\ ~IsPlaceholder(lastReply[1].fa[1])

\* the reply most recently decoded carries a final answer that is rejected
LastReplyRejected ==
    /\ lastReply # <<>>
    /\ lastReply[1].fa # <<>>
    /\ lastReply[1].fa[1] # <<>>
    /\ IsPlaceholder(lastReply[1].fa[1])

\* C1 as claimed: the LLM completion requests issued after the initial one
\* never exceed the cap N.
C1_RequestsAfterInitialWithinCap == llmCalls <= 1 + Cap

\* C1 as amended: the completion requests issued after an observation never
\* exceed the cap N, and at most one summarization request is issued besides
\* them, so at most N + 1 requests follow the initial one.
C1_LoopRequestsWithinCap ==
    /\ loopChats <= Cap
    /\ sumChats <= 1
    /\ llmCalls <= 1 + loopChats + sumChats

\* a run under the default cap that issued ten requests after observations
C1_Witness ==
    /\ cfgIterations <= 0
    /\ pc = "done"
    /\ retVia = "cap"
    /\ loopChats = 10

\* C2: every invocation of the loop returns after finitely many steps, given
\* that each LLM call and each tool execution returns.
C2_LoopReturns == (pc = "idle") ~> (pc = "done")

\* a run that returned after passes of the loop that called neither a tool
\* nor the LLM
C2_Witness ==
    /\ pc = "done"
    /\ retVia = "cap"
    /\ iterations = maxIterations + 1
    /\ loopChats = 0

\* C3: when the reply most recently decoded carries an accepted final answer,
\* the loop returns exactly that string with no error and makes no further
\* tool execution or LLM call, also when the reply names an action.
C3_AcceptedAnswerReturned ==
    [][ ProgramStep =>
        (   /\ (pc = "loop" /\ LastReplyAccepted) =>
                /\ pc' = "done"
                /\ result' = lastReply[1].fa[1]
                /\ err' = "nil"
                /\ llmCalls' = llmCalls
                /\ toolExecs' = toolExecs
                /\ naCount' = naCount
            /\ pc = "done" => (llmCalls' = llmCalls /\ toolExecs' = toolExecs)) ]_vars

\* a run that returned the final answer of a reply that also named a tool
C3_Witness ==
    /\ pc = "done"
    /\ LastReplyAccepted
    /\ lastReply[1].name = <<KubectlName>>
    /\ result = AnswerPlain
    /\ llmCalls > 1

\* C4 as claimed: a string returned through the final-answer branch is at
\* least 10 characters long, contains no template marker, and does not
\* contain both brackets.
C4_ReturnedAnswerTenCharacters ==
    retVia = "final" =>
        /\ Len(result) >= 10
        /\ \A k \in 1..Len(templatePatterns) : ~Contains(result, templatePatterns[k])
        /\ ~((\E i \in 1..Len(result) : result[i] = "<")
             /\ (\E i \in 1..Len(result) : result[i] = ">"))

\* C4 as amended: a string returned through the final-answer branch is at
\* least 10 bytes long in UTF-8, contains no template marker, and does not
\* contain both brackets.
C4_ReturnedAnswerTenBytes ==
    retVia = "final" =>
        /\ ByteLen(result) >= 10
        /\ \A k \in 1..Len(templatePatterns) : ~Contains(result, templatePatterns[k])
        /\ ~((\E i \in 1..Len(result) : result[i] = "<")
             /\ (\E i \in 1..Len(result) : result[i] = ">"))

\* a final answer of six CJK characters was returned
C4_Witness == retVia = "final" /\ result = AnswerCJK

\* the last message of the history is a user message whose envelope carries
\* an observation that starts with the text prefix
LastUserObservationStarts(history, prefix) ==
    /\ Len(history) > 0
    /\ history[Len(history)].role = "user"
    /\ history[Len(history)].content.kind = "envelope"
    /\ Len(history[Len(history)].content.observation) >= Len(prefix)
    /\ SubSeq(history[Len(history)].content.observation, 1, Len(prefix)) = prefix

\* C5: when the final answer of a decoded reply is rejected as a placeholder
\* and the cap has not been reached, the loop does not return on that reply:
\* it requests a further LLM completion.  Stated for the return at the cap:
\* the loop returns on a rejected reply only after N requests followed
\* observations.
C5_RejectedAnswerContinues ==
    (pc = "done" /\ retVia = "cap" /\ LastReplyRejected) => loopChats >= Cap

\* C6: when an LLM call fails, the loop returns at once with an empty result
\* and an error, and makes no further LLM call or tool execution.
C6_LLMFailureReturnsError ==
    [][ ProgramStep =>
        (   /\ (pc \in {"firstChat", "chat", "summarize"} /\ lastLLM' = "error") =>
                (pc' = "done" /\ result' = <<>> /\ err' # "nil")
            /\ lastLLM = "error" =>
                (llmCalls' = llmCalls /\ toolExecs' = toolExecs)) ]_vars

\* the summarization call failed, after a tool was run
C6_Witness ==
    /\ lastLLM = "error"
    /\ pc = "done"
    /\ sumChats = 1
    /\ toolExecs >= 1
    /\ err = "chat completion error"

\* C7: a tool handler that returns an error does not end the loop: the
\* failure becomes a "Tool <name> failed with error ..." observation in a user
\* message, the next completion is requested, and no error is returned.
C7_ToolFailureIsObservation ==
    [][ ProgramStep =>
        (   (pc = "tool" /\ lastTool' # <<>> /\ lastTool'[1].err # "nil") =>
                /\ pc' = "chat"
                /\ llmCalls' = llmCalls + 1
                /\ err' = "nil"
                /\ Len(chatHistory') = Len(chatHistory) + 1
                /\ LastUserObservationStarts(chatHistory',
                       <<"Tool ">> \o toolPrompt.name \o <<" failed with error ">>)) ]_vars

\* a handler failed and the completion after it is awaited
C7_Witness ==
    /\ pc = "chat"
    /\ lastTool # <<>>
    /\ lastTool[1].kind = "handler"
    /\ lastTool[1].err # "nil"
    /\ err = "nil"

UndecodableReplyArrives ==
    /\ pc \in {"firstChat", "chat"}
    /\ lastLLM' = "ok"
    /\ Len(chatHistory') > Len(chatHistory)
    /\ chatHistory'[Len(chatHistory) + 1].role = "assistant"
    /\ chatHistory'[Len(chatHistory) + 1].content.kind = "text"

\* the summarization message was appended and its completion requested
SummarizationRequested ==
    /\ pc' = "summarize"
    /\ sumChats' = sumChats + 1
    /\ llmCalls' = llmCalls + 1
    /\ chatHistory'[Len(chatHistory')] = ChatMessage("user", Text(SummarizePrompt))

AllWhiteSpace(s) == \A k \in 1..Len(s) : s[k] \in WhiteSpace

\* C10: when a registered tool returns no error and only white space, the
\* loop returns the canned answer at once with no error: no observation is
\* sent to the model, and no further LLM call or tool execution is made.
C10_EmptyOutputReturnsCanned ==
    [][ ProgramStep =>
        (   /\ (/\ pc = "tool"
                /\ lastTool' # <<>>
                /\ lastTool'[1].err = "nil"
                /\ AllWhiteSpace(lastTool'[1].ret)) =>
                  /\ pc' = "done"
                  /\ result' = CannedAnswer
                  /\ err' = "nil"
                  /\ llmCalls' = llmCalls
                  /\ toolExecs' = toolExecs
                  /\ \A k \in (Len(chatHistory) + 1)..Len(chatHistory') :
                        chatHistory'[k].role # "user"
            /\ retVia = "empty" => (llmCalls' = llmCalls /\ toolExecs' = toolExecs)) ]_vars

\* a handler returned white space only and the canned answer was returned
C10_Witness ==
    /\ pc = "done"
    /\ retVia = "empty"
    /\ lastTool # <<>>
    /\ lastTool[1].ret = <<" ", "\n">>
    /\ result = CannedAnswer

RECURSIVE LastSeenFinalAnswer(_)
\* the final_answer of the most recent model reply in the history that
\* carries one, "" when no reply carries one
LastSeenFinalAnswer(history) ==
    IF history = <<>> THEN <<>>
    ELSE LET m == history[Len(history)]
         IN  IF m.role = "assistant" /\ m.content.kind = "json"
                /\ m.content.fa # <<>>
             THEN m.content.fa[1]
             ELSE LastSeenFinalAnswer(SubSeq(history, 1, Len(history) - 1))

\* C11: when the loop stops because the iteration cap is exceeded, it
\* returns, with no error, the most recent final_answer seen in any model
\* reply of the run, and the empty string when no reply carried one.
C11_CapReturnsLastSeenAnswer ==
    retVia = "cap" => (err = "nil" /\ result = LastSeenFinalAnswer(chatHistory))

\* the cap was exceeded after a reply without final_answer, and the rejected
\* final answer of an earlier reply was returned
C11_Witness ==
    /\ pc = "done"
    /\ retVia = "cap"
    /\ lastReply # <<>>
    /\ lastReply[1].fa = <<>>
    /\ result = AnswerShort
    /\ loopChats >= 1

\* the summarization message is in the history
SummarizationMessageSent(history) ==
    \E k \in 1..Len(history) :
        history[k] = ChatMessage("user", Text(SummarizePrompt))

\* C12 as claimed: a run that reaches the iteration cap appends the
\* summarization user message and requests one more completion before it
\* returns.
C12_CapEntersGiveUp ==
    retVia = "cap" =>
        (sumChats >= 1 /\ SummarizationMessageSent(chatHistory))

\* C12 as amended: the pass of the loop that finds the cap exceeded returns
\* at once; it appends no message and requests no completion.  The
\* summarization message is appended, and its completion requested, only
\* when a reply that follows an observation does not decode.
C12_CapReturnsAtOnce ==
    [][ ProgramStep =>
        (   /\ (pc = "loop" /\ iterations >= maxIterations) =>
                  /\ pc' = "done"
                  /\ retVia' = "cap"
                  /\ chatHistory' = chatHistory
                  /\ llmCalls' = llmCalls
                  /\ sumChats' = sumChats
            /\ sumChats' # sumChats =>
                  (pc = "chat" /\ UndecodableReplyArrives /\ SummarizationRequested)
            /\ retVia = "cap" => (llmCalls' = llmCalls /\ chatHistory' = chatHistory)) ]_vars

\* a run returned at the cap after ten observations without any
\* summarization request
C12_Witness ==
    /\ pc = "done"
    /\ retVia = "cap"
    /\ loopChats = maxIterations
    /\ maxIterations = defaultMaxIterations
    /\ sumChats = 0
    /\ ~SummarizationMessageSent(chatHistory)

\* what a caller receives from a normal completion: the accepted final
\* answer of a reply, and no error
NormalCompletions ==
    { <<r.fa[1], "nil">> :
        r \in { q \in Replies : /\ q.kind = "json"
                                /\ q.fa # <<>>
                                /\ q.fa[1] # <<>>
                                /\ ~IsPlaceholder(q.fa[1]) } }

\* C13: a return caused by exhausting the iteration cap is distinguishable by
\* the caller from a normal completion: what the caller receives from it (the
\* result string and the error; both facades drop the history) is never what
\* a normal completion hands over.
C13_CapReturnLabelled ==
    retVia = "cap" => <<result, err>> \notin NormalCompletions

\* the text the loop itself produced for the dispatch t: the trimmed output
\* of the handler, or the message the loop synthesizes when the handler
\* failed or the tool is not registered
OwnObservation(t) ==
    IF t.kind = "unavailable"
    THEN <<"Tool ">> \o t.name
            \o <<" is not available. Considering switch to other supported tools.">>
    ELSE IF t.err # "nil"
    THEN <<"Tool ">> \o t.name \o <<" failed with error ">> \o t.ret
            \o <<". Considering refine the inputs for the tool.">>
    ELSE TrimRight(TrimLeft(t.ret))

\* obs is the text own cut to the longest prefix of at most 1024 tokens
IsTruncationOf(obs, own) ==
    /\ Len(obs) <= Len(own)
    /\ obs = SubSeq(own, 1, Len(obs))
    /\ NumTokens(obs) <= 1024
    /\ obs # own => NumTokens(SubSeq(own, 1, Len(obs) + 1)) > 1024

\* C14: after every ACT step the observation field of the message appended
\* to the history is the loop's own tool output or synthesized tool message,
\* truncated, whatever the model's reply carried in its observation field.
C14_ObservationIsLoopsOwn ==
    [][ (pc \in {"loop", "tool"} /\ Len(chatHistory') > Len(chatHistory)) =>
            /\ Len(chatHistory') = Len(chatHistory) + 1
            /\ chatHistory'[Len(chatHistory')].content.kind = "envelope"
            /\ lastTool' # <<>>
            /\ IsTruncationOf(chatHistory'[Len(chatHistory')].content.observation,
                              OwnObservation(lastTool'[1])) ]_vars

\* C15: at every return of the loop that yields a history, the first message
\* of the history has role system and is the system prompt the facade passed
\* in; no step of the loop removes, replaces or moves it.
C15_SystemPromptStaysFirst ==
    /\ [](chatHistory # <<>> =>
            /\ chatHistory[1].role = "system"
            /\ chatHistory[1] = prompts[1]
            /\ chatHistory[1] = SystemPrompt)
    /\ [][chatHistory # <<>> =>
            (chatHistory' # <<>> /\ chatHistory'[1] = chatHistory[1])]_vars

\* the /execute handler answered a run that returned at the cap with a
\* history of more than twenty messages, the system prompt first
C15_Witness ==
    /\ pc = "responded"
    /\ entry = "http"
    /\ retVia = "cap"
    /\ Len(chatHistory) > 20
    /\ chatHistory[1] = SystemPrompt

C17_RequestWithinBudget ==
    pc \in {"firstChat", "chat", "summarize"} =>
        NumTokensFromMessages(chatHistory) <= maxTokens

\* the envelope carries a final answer that is not a placeholder
EnvelopeAnswerAccepted(tp) == tp.fa # <<>> /\ ~IsPlaceholder(tp.fa)

\* C18 as claimed: at every turn exactly one of the two holds for the
\* envelope the loop acts on: its action name is populated, or its final
\* answer is populated and accepted; never both and never neither.
C18_ExactlyOnePopulated ==
    (pc = "loop" /\ iterations < maxIterations) =>
        ((toolPrompt.name # <<>>) # EnvelopeAnswerAccepted(toolPrompt))

\* C18 as amended: at every turn the loop acts on at most one of the two.
\* It returns through the final-answer branch only when the final answer is
\* populated and accepted, and then dispatches nothing, also when the action
\* name is populated too; it dispatches an action only when the action name
\* is populated and the final answer is not accepted; when neither holds it
\* does neither.
C18_ActsOnAtMostOne ==
    [][ ProgramStep =>
        (   pc = "loop" =>
              /\ retVia' = "final" =>
                    /\ EnvelopeAnswerAccepted(toolPrompt)
                    /\ result' = toolPrompt.fa
                    /\ toolExecs' = toolExecs
                    /\ naCount' = naCount
              /\ (toolExecs' # toolExecs \/ naCount' # naCount) =>
                    /\ toolPrompt.name # <<>>
                    /\ ~EnvelopeAnswerAccepted(toolPrompt)
                    /\ retVia' = "none"
              /\ (toolPrompt.name = <<>> /\ ~EnvelopeAnswerAccepted(toolPrompt)) =>
                    /\ retVia' # "final"
                    /\ toolExecs' = toolExecs
                    /\ naCount' = naCount) ]_vars

\* a handler runs for an envelope that carries both an action name and a
\* final answer, the final answer being a rejected placeholder
C18_Witness ==
    /\ pc = "tool"
    /\ toolPrompt.name = KubectlName
    /\ toolPrompt.fa = AnswerShort
    /\ lastReply # <<>>
    /\ lastReply[1].name # <<>>
    /\ lastReply[1].fa # <<>>

\* the loop ended with an answer, counting in the claim's favour every
\* return that hands a text over as the answer; what is left out is the
\* return at the cap with an empty or placeholder final answer
LoopEndedWithAnswer ==
    \/ retVia \in {"final", "empty", "firstParseFail", "summary"}
    \/ retVia = "cap" /\ result # <<>> /\ ~IsPlaceholder(result)

\* C19: the execute endpoint responds with status "success" only if the loop
\* terminated with a non-empty, non-placeholder final answer; every other
\* outcome of the loop yields another status or an error response.
C19_SuccessOnlyWithAnswer ==
    (pc = "responded" /\ response.kind = "http" /\ response.status = "success")
        => LoopEndedWithAnswer

\* the request lacks what the facade requires: the credential header (HTTP
\* only) or the instructions
RequestInvalid ==
    \/ request.facade = "http" /\ ~request.credential
    \/ request.facade \in {"http", "cli"} /\ ~request.instructions

\* C20: an HTTP request with a missing credential header or with empty
\* instructions, and a CLI invocation without instructions, is rejected
\* (HTTP 4xx, CLI fatal) without the loop being entered: no LLM call and no
\* tool execution happens for it.
C20_InvalidRequestRejected ==
    RequestInvalid =>
        /\ pc = "responded"
        /\ response.kind = request.facade
        /\ response.status = "error"
        /\ request.facade = "http" => response.code \in 400..499
        /\ request.facade = "cli" => response.code # 0
        /\ entry = "none"
        /\ chatHistory = <<>>
        /\ llmCalls = 0
        /\ toolExecs = 0
        /\ naCount = 0

\* an HTTP request that carried the credential header and no instructions
\* was answered 400
C20_Witness ==
    /\ pc = "responded"
    /\ request.facade = "http"
    /\ request.credential
    /\ ~request.instructions
    /\ response.code = 400
    /\ llmCalls = 0

\* C21: once a cancellation signal has been raised for a request, its loop
\* issues no further LLM call.
C21_NoCallAfterCancel ==
    [][cancelled => llmCalls' = llmCalls]_vars

\* client.Chat requests issued and not yet returned
LLMCallsInFlight == llmCalls - llmReturns

\* tool handlers called and not yet returned
ToolsInFlight == toolExecs - toolReturns

\* C22: within one loop invocation at most one operation is in flight at any
\* time: a tool execution never overlaps an LLM call or another tool
\* execution of the same loop.
C22_OneOperationInFlight ==
    /\ LLMCallsInFlight \in {0, 1}
    /\ ToolsInFlight \in {0, 1}
    /\ LLMCallsInFlight + ToolsInFlight <= 1

\* a handler is running after two client.Chat requests have returned
C22_Witness ==
    /\ pc = "tool"
    /\ ToolsInFlight = 1
    /\ LLMCallsInFlight = 0
    /\ llmReturns >= 2
    /\ toolReturns >= 1

\* the names the tool contract fixes
FixedIdentifiers == {<<"kubectl">>, <<"trivy">>, <<"python">>, <<"jq">>}

\* C23: an action whose name is one of the fixed identifiers kubectl, trivy,
\* python or jq is dispatched to a registered handler and is never answered
\* with the "not available" observation.
C23_FixedNamesDispatched ==
    [][ (tpc = "lookup" /\ tname \in FixedIdentifiers) =>
            (tpc' = "call" /\ tobs' # NotAvailableObservation(tname)) ]_vars

\* C24: after process initialization the tool registry is never modified: no
\* step taken while loops run adds, replaces or removes an entry.
C24_RegistryReadOnly == [][ tpc # "init" => registry' = registry ]_vars

\* a lookup has missed, and the registry is the one process initialization
\* left
C24_Witness ==
    /\ tpc = "observed"
    /\ tobs = NotAvailableObservation(tname)
    /\ tname \notin DOMAIN registry
    /\ registry = RegisterTrivy(CopilotToolsLiteral)

\* what sends a command to the shell
ShellSyntax ==
    {<<"|">>, <<">">>, <<"<">>, <<";">>, <<"&", "&">>, <<"|", "|">>,
     <<"\"">>, <<"'">>}

\* the command without its leading "kubectl"
AfterLeadingKubectl(command) ==
    IF command # <<>> /\ Head(command) = "kubectl"
    THEN TrimSpace(Tail(command)) ELSE command

\* C25: Kubectl delegates to a shell exactly when the command, after removal
\* of a leading "kubectl", contains a pipe, a redirection character, a
\* semicolon, "&&", "||" or a quote; every other command is split on white
\* space and run directly as the argument vector of kubectl.
C25_ShellExactlyForShellSyntax ==
    (tpc = "returned" /\ tname = KubectlName) =>
        LET command == AfterLeadingKubectl(tinput)
        IN  IF \E mark \in ShellSyntax : Contains(command, mark)
            THEN /\ tvia = "shell"
                 /\ targv = <<<<"sh">>, <<"-c">>, <<"kubectl", " ">> \o command>>
            ELSE /\ tvia = "direct"
                 /\ Head(targv) = <<"kubectl">>
                 /\ Tail(targv) = Fields(command)
                 /\ \A i \in 1..Len(targv) :
                        \A j \in 1..Len(targv[i]) : targv[i][j] \notin WhiteSpace

\* a command with a quote and no pipe went to the shell
C25_Witness ==
    /\ tpc = "returned"
    /\ tname = KubectlName
    /\ tvia = "shell"
    /\ Head(tinput) = "kubectl"
    /\ Contains(tinput, <<"'">>)
    /\ ~Contains(tinput, <<"|">>)

\* C26: whenever a tool handler returns an error, the observation fed back to
\* the model contains the failure information the tool produced: its error
\* output or its error text.
C26_FailureInObservation ==
    (tpc = "observed" /\ terr # "nil") =>
        \/ tret # <<>> /\ Contains(tobs, tret)
        \/ Contains(tobs, <<terr>>)

\* the data part of an input of JQ
DataPart(input) == TrimSpace(Head(Split(input, "|")))

IsJSONText(data) == data \in {<<"{}">>}

\* C27: JQ starts the jq process only after the data part of its input has
\* been validated as JSON: for an input whose data part is not valid JSON it
\* returns an error and no process was spawned.
C27_ValidatedBeforeSpawn ==
    (tname = JQName /\ tpc \in {"jqExec", "jqReturned"}) =>
        /\ tvia = "process" => IsJSONText(DataPart(tinput))
        /\ tpc = "jqExec" => IsJSONText(DataPart(tinput))
        /\ (tpc = "jqReturned" /\ ~IsJSONText(DataPart(tinput))) =>
               (terr # "nil" /\ tvia = "none" /\ targv = <<>>)

\* JQ returned the validation error for an input of two parts
C27_Witness ==
    /\ tpc = "jqReturned"
    /\ Len(Split(tinput, "|")) = 2
    /\ ~IsJSONText(DataPart(tinput))
    /\ terr = "invalid JSON data"
    /\ tvia = "none"

\* what the summarization path is to return for the reply r: the final_answer
\* of a JSON object that carries a non-empty one, the raw reply otherwise
ExtractedSummary(r) ==
    IF r.kind = "json" /\ r.fa # <<>> /\ r.fa[1] # <<>> THEN r.fa[1] ELSE Raw(r)

\* C28: in the summarization path, when the summarization reply is a JSON
\* object with a non-empty string final_answer the loop returns exactly that
\* string, and otherwise the raw summarization reply.
C28_SummaryReturnsFinalAnswer ==
    [][ (pc = "summarize" /\ lastLLM' = "ok" /\ pc' = "done") =>
            \E r \in RepliesOf(cfgIterations) : result' = ExtractedSummary(r) ]_vars

\* the step appends the reply r of the LLM to the history
ReplyArrived(r) ==
    /\ pc \in {"firstChat", "chat"}
    /\ Len(chatHistory') > Len(chatHistory)
    /\ chatHistory'[Len(chatHistory) + 1] = ChatMessage("assistant", r)

\* the step decodes the envelope e into toolPrompt and goes on with the loop
HandledAsEnvelope(e) ==
    /\ pc' = "loop"
    /\ toolPrompt' = Unmarshal(IF pc = "firstChat" THEN ToolPrompt ELSE toolPrompt, e)
    /\ result' = result

\* C29: a reply that is a well-formed envelope wrapped in a Markdown code
\* fence is handled, at the first turn and at every later turn, exactly like
\* the same envelope without the fence.
C29_FencedEnvelopeHandled ==
    [][ ReplyArrived(Fenced(KubectlEnvelope)) =>
            HandledAsEnvelope(KubectlEnvelope) ]_vars

\* C30: a reply that is a <think>...</think> block followed by a well-formed
\* envelope is parsed as that envelope: its action is executed or its final
\* answer accepted as if the think block were absent.
C30_ThinkBlockSkipped ==
    [][ ReplyArrived(Thought(KubectlEnvelope)) =>
            HandledAsEnvelope(KubectlEnvelope) ]_vars

\* the number of "|" characters of an input
PipeCount(input) == Cardinality({i \in 1..Len(input) : input[i] = "|"})

C32_ExecutesLatestAction ==
    [][ (pc = "loop" /\ toolExecs' = toolExecs + 1) =>
            /\ lastReply # <<>>
            /\ lastReply[1].name = <<toolPrompt.name>>
            /\ lastReply[1].input = <<toolPrompt.input>> ]_vars

\* the tool dispatches of the run: handler invocations and "not available"
\* observations
Dispatches == toolExecs + naCount

\* C33: in one loop invocation the number of tool dispatches never exceeds the
\* cap, for every sequence of model replies and tool results.
C33_DispatchesWithinCap == Dispatches <= Cap

\* a run under a configured cap that dispatched as many tools as the cap allows
C33_Witness ==
    /\ cfgIterations > 0
    /\ pc = "done"
    /\ retVia = "cap"
    /\ Dispatches = Cap
    /\ naCount >= 1

\* C34: between two consecutive LLM completion requests of one loop invocation
\* the loop dispatches at most one tool: every dispatch but the latest has
\* been followed by its own completion request.
C34_OneDispatchPerReply ==
    /\ Dispatches >= loopChats
    /\ Dispatches <= loopChats + 1

\* the second handler of a run is running after one completion request
\* followed the first
C34_Witness ==
    /\ pc = "tool"
    /\ toolExecs = 2
    /\ loopChats = 1

\* C31: the response normalizer is idempotent on valid input: for an input
\* that is a valid JSON envelope, applying it twice gives the same result as
\* applying it once.
C31_NormalizerIdempotent == ncount = 2 => nout = nfirst


\* C35: a call to PrintStats always completes, under every interleaving with
\* the StartTimer, StopTimer, RecordMetric and ResetMetrics calls of other
\* requests: the lock of PerfStats never deadlocks.
C35_PrintStatsCompletes ==
    (ppc["printer"] = "printing") ~> (ppc["printer"] = "printed")

\* C36: with concurrent requests, the StopTimer that ends the
\* StartTimer ... StopTimer pair of a request adds exactly one sample to the
\* metrics of the operation, measured from the StartTimer of that request.
C36_OneSamplePerPair ==
    [][\A p \in PerfRequests :
           ppc[p] = "StopTimer" /\ ppc'[p] = "done"
               => metrics'["execute_assistant"] =
                      Append(metrics["execute_assistant"],
                             [by |-> p, from |-> p])]_vars

\* C37: GetLogger never returns nil, under every interleaving of its callers,
\* across a daily rotation and after a failed initialization.
C37_GetLoggerNeverNil ==
    \A c \in LogCallers : lpc[c] = "returned" => lret[c] # "nil"

====
